---- MODULE Spec2Model ----
(***************************************************************************)
(* Offset pagination link calculator of the jsonapi package                *)
(* (OffsetPagination.GeneratePagination and its helpers, resource.go).     *)
(*                                                                         *)
(* A Go string is modelled as a sequence of one-character strings, so that *)
(* strings.Contains, the two regular expressions and the string            *)
(* concatenations are computed character by character, as the code does.   *)
(***************************************************************************)
EXTENDS Integers, Sequences, FiniteSets, TLC

(***************************************************************************)
(* Bounds of the model.                                                    *)
(***************************************************************************)
MaxLimit == 3
MaxTotal == 5
MaxParams == 2
MaxParamsConc == 1
MaxLimitConc == 1
MaxTotalConc == 2

Procs == {"a", "b"}

(***************************************************************************)
(* Characters and string constants.                                        *)
(***************************************************************************)
DigitChars == <<"0", "1", "2", "3", "4", "5", "6", "7", "8", "9">>

IsDigit(c) == \E i \in 1..10 : DigitChars[i] = c

DigitVal(c) == (CHOOSE i \in 1..10 : DigitChars[i] = c) - 1

PagePrefix == <<"p", "a", "g", "e", "[">>

NameLimit == <<"l", "i", "m", "i", "t">>

NameLimitUpper == <<"L", "i", "m", "i", "t">>

NameOffset == <<"o", "f", "f", "s", "e", "t">>

PageLimit == PagePrefix \o NameLimit \o <<"]">>

PageOffset == PagePrefix \o NameOffset \o <<"]">>

KeyFirstPage == "first"

KeyPreviousPage == "previous"

KeyNextPage == "next"

KeyLastPage == "last"

(***************************************************************************)
(* strconv.FormatInt(n, 10) and strconv.Atoi on a run of digits.  The runs *)
(* of digits of the model are short, so the clamping of Atoi at the width  *)
(* of int is never reached.                                                *)
(***************************************************************************)
RECURSIVE FormatNat(_)
FormatNat(n) ==
    IF n < 10 THEN <<DigitChars[n + 1]>>
    ELSE FormatNat(n \div 10) \o <<DigitChars[(n % 10) + 1]>>

FormatInt(n) == IF n < 0 THEN <<"-">> \o FormatNat(0 - n) ELSE FormatNat(n)

RECURSIVE Atoi(_)
Atoi(ds) ==
    IF ds = <<>> THEN 0
    ELSE Atoi(SubSeq(ds, 1, Len(ds) - 1)) * 10 + DigitVal(ds[Len(ds)])

Min(a, b) == IF a < b THEN a ELSE b

Max(a, b) == IF a > b THEN a ELSE b

(***************************************************************************)
(* strings.Contains and prefix matching at a position.                     *)
(***************************************************************************)
HasPrefixAt(s, i, pre) ==
    /\ i + Len(pre) - 1 <= Len(s)
    /\ \A j \in 1..Len(pre) : s[i + j - 1] = pre[j]

Contains(s, sub) == \E i \in 1..(Len(s) + 1) : HasPrefixAt(s, i, sub)

(***************************************************************************)
(* appendToURL: "?" + param when the URL has no "?", "&" + param otherwise.*)
(***************************************************************************)
\* line 260: what introduces the parameter
Separator(url) == IF ~Contains(url, <<"?">>) THEN <<"?">> ELSE <<"&">>

appendToURL(url, param) == url \o Separator(url) \o param

(***************************************************************************)
(* getPageParam: leftmost match of page\[<name>\]=(\d+), the digits run    *)
(* taken greedily and converted with Atoi; 0 when nothing matches.         *)
(***************************************************************************)
IsSpecial(c) == c \in {"]", "^", "[", ".", "(", ")", "-"}

NotAmp(c) == c # "&"

\* membership of a character in a character class of the patterns used
InClass(cls, c) ==
    CASE cls = "\\d" -> IsDigit(c)
      [] cls = "[^&]" -> NotAmp(c)
      [] OTHER -> IsSpecial(c)

RECURSIVE RunEnd(_, _, _)
\* last index of the maximal run, starting at i, of characters of class cls
RunEnd(s, i, cls) ==
    IF i + 1 <= Len(s) /\ InClass(cls, s[i + 1]) THEN RunEnd(s, i + 1, cls)
    ELSE i

getPageParam(name, url) ==
    LET key == PagePrefix \o name \o <<"]", "=">>
        k == Len(key)
        hits == {i \in 1..Len(url) :
                    /\ HasPrefixAt(url, i, key)
                    /\ i + k <= Len(url)
                    /\ IsDigit(url[i + k])}
    IN IF hits = {} THEN 0
       ELSE LET i == CHOOSE h \in hits : \A g \in hits : h <= g
            IN Atoi(SubSeq(url, i + k, RunEnd(url, i + k, "\\d")))

(***************************************************************************)
(* regexSafe: every maximal run of characters of the class ] ^ [ . ( ) -   *)
(* is replaced by a backslash followed by the last character of the run    *)
(* (the group of "([...])+" captures its last iteration).                  *)
(***************************************************************************)
RECURSIVE regexSafeFrom(_, _)
regexSafeFrom(in, i) ==
    IF i > Len(in) THEN <<>>
    ELSE IF IsSpecial(in[i])
         THEN LET e == RunEnd(in, i, "special")
              IN <<"\\", in[e]>> \o regexSafeFrom(in, e + 1)
         ELSE <<in[i]>> \o regexSafeFrom(in, i + 1)

regexSafe(in) == regexSafeFrom(in, 1)

(***************************************************************************)
(* The literal a pattern of escaped characters matches: "\c" matches c.    *)
(***************************************************************************)
RECURSIVE PatternLiteral(_, _)
PatternLiteral(pat, i) ==
    IF i > Len(pat) THEN <<>>
    ELSE IF pat[i] = "\\" /\ i + 1 <= Len(pat)
         THEN <<pat[i + 1]>> \o PatternLiteral(pat, i + 2)
         ELSE <<pat[i]>> \o PatternLiteral(pat, i + 1)

(***************************************************************************)
(* replaceParam: every non-overlapping match, left to right, of            *)
(* <regexSafe(param)>=[^&]+ is replaced by <param>=<value>.                *)
(***************************************************************************)
RECURSIVE ReplaceAllFrom(_, _, _, _)
ReplaceAllFrom(url, i, key, newParam) ==
    IF i > Len(url) THEN <<>>
    ELSE IF /\ HasPrefixAt(url, i, key)
            /\ i + Len(key) <= Len(url)
            /\ NotAmp(url[i + Len(key)])
         THEN newParam
              \o ReplaceAllFrom(url, RunEnd(url, i + Len(key), "[^&]") + 1,
                                key, newParam)
         ELSE <<url[i]>> \o ReplaceAllFrom(url, i + 1, key, newParam)

replaceParam(url, param, value) ==
    LET newParam == param \o <<"=">> \o value
        seek == regexSafe(param) \o <<"=">>
    IN ReplaceAllFrom(url, 1, PatternLiteral(seek, 1), newParam)

(***************************************************************************)
(* The pieces of GeneratePagination.                                       *)
(***************************************************************************)
\* the short-circuit taken one item too late
NoPaginationOffByOne(Total, Limit) == Total + 1 < Limit

\* "no pagination needed"
NoPagination(Total, Limit) == Total < Limit

\* the parameter appended when the URL does not contain "page[limit]"
LimitParam(Limit) == PageLimit \o <<"=">> \o FormatInt(Limit)

\* the parameter appended when the URL does not contain "page[offset]"
OffsetParam == PageOffset \o <<"=", "0">>

\* limit := min(getPageParam("Limit", URL), Limit), Limit when that is 0
EffectiveLimit(url, Limit) ==
    LET m == Min(getPageParam(NameLimitUpper, url), Limit)
    IN IF m = 0 THEN Limit ELSE m

\* offset := max(getPageParam("offset", URL), 0)
EffectiveOffset(url) == Max(getPageParam(NameOffset, url), 0)

\* a copy of the URL with page[limit] and then page[offset] rewritten
Rewrite(url, limit, target) ==
    replaceParam(replaceParam(url, PageLimit, FormatInt(limit)),
                 PageOffset, FormatInt(target))

HasFirst(offset) == offset > 0

HasPrevious(offset, limit) == offset > limit

prevOffset(offset, limit) == offset - limit

HasNext(offset, limit, Total) == offset + limit < Total - limit

nextOffset(offset, limit) == offset + limit

HasLast(offset, limit, Total) == offset + limit < Total

\* the division by limit panics when limit is 0
LastPanics(limit) == limit = 0

PullBack(lastOff, Total) == lastOff > Total

lastOffset(offset, limit, Total) ==
    LET pages == (Total \div limit) + (IF Total % limit > 0 THEN 1 ELSE 0)
        shifted == ((pages - 1) * limit) + (offset % limit)
    IN IF PullBack(shifted, Total) THEN shifted - limit ELSE shifted

EmptyLinks == [k \in {} |-> <<>>]

Put(lk, key, url) == [k \in (DOMAIN lk) \cup {key} |->
                         IF k = key THEN url ELSE lk[k]]

(***************************************************************************)
(* Requests the caller can construct: a path followed by at most MaxParams *)
(* query parameters name=value, with at most one page[limit] and at most   *)
(* one page[offset] among them.  Values are numeric, non-numeric, mixed or *)
(* empty; the other parameters include one whose name ends in              *)
(* "page[limit]", one whose name ends in "page[offset]" and one that       *)
(* differs from "page[limit]" in case only.                                *)
(***************************************************************************)
Path == <<"/">>

Param(name, value) == name \o <<"=">> \o value

LimitParams == {Param(PageLimit, v) : v \in {<<"1">>, <<"3">>, <<>>}}

OffsetParams ==
    {Param(PageOffset, v) :
        v \in {<<"0">>, <<"1">>, <<"4">>, <<"3", "x">>, <<"x">>, <<>>}}

OtherParams ==
    {Param(<<"s">>, <<"1">>),
     Param(<<"x">> \o PageLimit, <<"7">>),
     Param(<<"x">> \o PageOffset, <<"4">>),
     Param(PagePrefix \o NameLimitUpper \o <<"]">>, <<"2">>)}

ParamSet == LimitParams \cup OffsetParams \cup OtherParams

AtMostOne(ps, S) == Cardinality({i \in 1..Len(ps) : ps[i] \in S}) <= 1

RECURSIVE JoinParams(_)
JoinParams(ps) ==
    IF Len(ps) = 0 THEN <<>>
    ELSE IF Len(ps) = 1 THEN ps[1]
    ELSE ps[1] \o <<"&">> \o JoinParams(Tail(ps))

MkURL(ps) == IF Len(ps) = 0 THEN Path ELSE Path \o <<"?">> \o JoinParams(ps)

URLs(n) ==
    {MkURL(ps) : ps \in {qs \in UNION {[1..m -> ParamSet] : m \in 0..n} :
                            /\ AtMostOne(qs, LimitParams)
                            /\ AtMostOne(qs, OffsetParams)}}

Requests(n) ==
    [URL : URLs(n), Limit : 0..MaxLimit, Total : 0..MaxTotal]

\* the requests two calls interleave on: the path alone or with pagination
\* parameters, a positive limit
ConcParams == LimitParams \cup OffsetParams

ConcURLs ==
    {MkURL(ps) : ps \in {qs \in UNION {[1..m -> ConcParams] :
                                          m \in 0..MaxParamsConc} :
                            /\ AtMostOne(qs, LimitParams)
                            /\ AtMostOne(qs, OffsetParams)}}

ConcRequests ==
    [URL : ConcURLs, Limit : 1..MaxLimitConc, Total : 0..MaxTotalConc]

(***************************************************************************)
(* State.                                                                  *)
(*   p      the OffsetPagination value the calls share (pointer receiver); *)
(*          p.URL is the data word of the string header of the field URL,  *)
(*          given as the bytes it points to                                *)
(*   urlLen the length word of the string header of p.URL; the string is   *)
(*          the first urlLen bytes at p.URL                                *)
(*   behind the bytes that lie in memory behind the data of a string: not  *)
(*          the program's, unknown, the same throughout a run              *)
(*   orig   the value of p as the caller constructed it                    *)
(*   pc     the position of each call                                      *)
(*   limit, offset, links   the locals of each call                        *)
(*   ret    what each call returned: "nil", "links" (the value of links),  *)
(*          "panic" (integer division by zero), "pending" before that      *)
(*   app    the call of appendToURL each call is in: its parameter, the    *)
(*          separator it chose, the value of p.URL it read for +=, the     *)
(*          word of the header it stored first, and the statement of       *)
(*          GeneratePagination it returns to                               *)
(*   ld     the load of p.URL each call is in: the word of the header it   *)
(*          has loaded so far, and that word                               *)
(***************************************************************************)
VARIABLES p, urlLen, behind, orig, pc, limit, offset, links, ret, app, ld

vars == <<p, urlLen, behind, orig, pc, limit, offset, links, ret, app, ld>>

\* no call of appendToURL in progress
NoAppend ==
    [param |-> <<>>, sep |-> <<>>, url |-> <<>>, first |-> "none",
     back |-> "none"]

\* no load of p.URL in progress
NoLoad == [word |-> "none", data |-> <<>>, len |-> 0]

\* bytes found behind the data of a string
JunkFill == "#"

JunkWords ==
    {<<>>, <<"?">>, Param(PageLimit, <<"2">>), Param(PageOffset, <<"2">>)}

InitWith(reqs, junk) ==
    /\ p \in reqs
    /\ urlLen = Len(p.URL)
    /\ behind \in junk
    /\ orig = p
    /\ pc = [self \in Procs |-> "start"]
    /\ limit = [self \in Procs |-> 0]
    /\ offset = [self \in Procs |-> 0]
    /\ links = [self \in Procs |-> EmptyLinks]
    /\ ret = [self \in Procs |-> "pending"]
    /\ app = [self \in Procs |-> NoAppend]
    /\ ld = [self \in Procs |-> NoLoad]

\* a call run alone never loads bytes behind a string
Init == InitWith(Requests(MaxParams), {<<>>})

InitConc == InitWith(ConcRequests, JunkWords)

(***************************************************************************)
(* A whole call of GeneratePagination run alone on a request: the URL it   *)
(* leaves in the request, its locals and what it returns.                  *)
(***************************************************************************)
\* p.URL after lines 169-174
WorkingURL(url, Limit) ==
    LET u1 == IF ~Contains(url, PageLimit)
              THEN appendToURL(url, LimitParam(Limit)) ELSE url
    IN IF ~Contains(u1, PageOffset) THEN appendToURL(u1, OffsetParam) ELSE u1

\* the links built by lines 183-204 (first, previous, next)
LinksBeforeLast(url, l, o, Total) ==
    LET l1 == IF HasFirst(o)
              THEN Put(EmptyLinks, KeyFirstPage, Rewrite(url, l, 0))
              ELSE EmptyLinks
        l2 == IF HasPrevious(o, l)
              THEN Put(l1, KeyPreviousPage, Rewrite(url, l, prevOffset(o, l)))
              ELSE l1
    IN IF HasNext(o, l, Total)
       THEN Put(l2, KeyNextPage, Rewrite(url, l, nextOffset(o, l)))
       ELSE l2

Alone(req) ==
    IF NoPagination(req.Total, req.Limit)
    THEN [URL |-> req.URL, limit |-> 0, offset |-> 0,
          links |-> EmptyLinks, ret |-> "nil"]
    ELSE LET url == WorkingURL(req.URL, req.Limit)
             l == EffectiveLimit(url, req.Limit)
             o == EffectiveOffset(url)
             lk == LinksBeforeLast(url, l, o, req.Total)
         IN IF ~HasLast(o, l, req.Total)
            THEN [URL |-> url, limit |-> l, offset |-> o,
                  links |-> lk, ret |-> "links"]
            ELSE IF LastPanics(l)
            THEN [URL |-> url, limit |-> l, offset |-> o,
                  links |-> lk, ret |-> "panic"]
            ELSE [URL |-> url, limit |-> l, offset |-> o,
                  links |-> Put(lk, KeyLastPage,
                                Rewrite(url, l, lastOffset(o, l, req.Total))),
                  ret |-> "links"]

GeneratePagination(self) ==
    /\ pc[self] = "start"
    /\ LET r == Alone(p)
       IN /\ p' = [p EXCEPT !.URL = r.URL]
          /\ urlLen' = Len(r.URL)
          /\ limit' = [limit EXCEPT ![self] = r.limit]
          /\ offset' = [offset EXCEPT ![self] = r.offset]
          /\ links' = [links EXCEPT ![self] = r.links]
          /\ ret' = [ret EXCEPT ![self] = r.ret]
    /\ pc' = [pc EXCEPT ![self] = "done"]
    /\ orig' = orig
    /\ app' = app
    /\ ld' = ld
    /\ behind' = behind

Next == GeneratePagination("a")

Spec == Init /\ [][Next]_vars

(***************************************************************************)
(* GeneratePagination step by step, for calls that interleave on the same  *)
(* request.  The calls share p.URL without synchronisation.  A Go string   *)
(* is a header of two words, data pointer and length: a load of p.URL is   *)
(* two word loads and the store of "p.URL += ..." two word stores, in an   *)
(* order the build chooses, and steps of the other call can come between   *)
(* them.  A call can so load a header whose words come from different      *)
(* stores: a length shorter than the data gives a prefix of the data, a    *)
(* longer one the data followed by the bytes that lie behind it in memory. *)
(* Every step accesses one word of the header at most.                     *)
(***************************************************************************)
Goto(self, label) == pc' = [pc EXCEPT ![self] = label]

Words == {"data", "len"}

\* the k bytes behind the data of a string
Junk(k) ==
    IF Len(behind) >= k THEN SubSeq(behind, 1, k)
    ELSE behind \o [i \in 1..(k - Len(behind)) |-> JunkFill]

\* the string a header of these two words is read as
Value(data, n) ==
    IF n <= Len(data) THEN SubSeq(data, 1, n)
    ELSE data \o Junk(n - Len(data))

\* the statement a call is at loads p.URL
NeedsLoad(self) ==
    \/ pc[self] \in {"checkLimit", "checkOffset", "appendCheck",
                     "appendRead", "getLimit", "getOffset"}
    \/ pc[self] = "first" /\ HasFirst(offset[self])
    \/ pc[self] = "previous" /\ HasPrevious(offset[self], limit[self])
    \/ pc[self] = "next" /\ HasNext(offset[self], limit[self], p.Total)
    \/ pc[self] = "last" /\ HasLast(offset[self], limit[self], p.Total)

\* the first word load of a load of p.URL
LoadFirst(self) ==
    /\ NeedsLoad(self)
    /\ ld[self].word = "none"
    /\ \E w \in Words :
          ld' = [ld EXCEPT ![self] =
                    IF w = "data"
                    THEN [word |-> w, data |-> p.URL, len |-> 0]
                    ELSE [word |-> w, data |-> <<>>, len |-> urlLen]]
    /\ UNCHANGED <<p, urlLen, behind, orig, pc, limit, offset, links, ret, app>>

\* the statement a call is at has loaded the first word of p.URL, or does
\* not load p.URL at all
Ready(self) == NeedsLoad(self) => ld[self].word # "none"

\* the second word load of a load of p.URL, and the string the load gives
Loaded(self) ==
    IF ld[self].word = "data" THEN Value(ld[self].data, urlLen)
    ELSE IF ld[self].word = "len" THEN Value(p.URL, ld[self].len)
    ELSE <<>>

EndLoad(self) == ld' = [ld EXCEPT ![self] = NoLoad]

\* line 162
Start(self) ==
    /\ pc[self] = "start"
    /\ IF NoPagination(p.Total, p.Limit)
       THEN /\ ret' = [ret EXCEPT ![self] = "nil"]
            /\ Goto(self, "done")
       ELSE /\ ret' = ret
            /\ Goto(self, "checkLimit")
    /\ UNCHANGED <<app, ld, p, urlLen, behind, orig, limit, offset, links>>

\* line 169
CheckLimit(self) ==
    /\ pc[self] = "checkLimit"
    /\ Ready(self)
    /\ IF ~Contains(Loaded(self), PageLimit)
       THEN Goto(self, "appendLimit")
       ELSE Goto(self, "checkOffset")
    /\ EndLoad(self)
    /\ UNCHANGED <<app, p, urlLen, behind, orig, limit, offset, links, ret>>

\* line 170: the call of appendToURL
AppendLimit(self) ==
    /\ pc[self] = "appendLimit"
    /\ app' = [app EXCEPT ![self] =
                  [NoAppend EXCEPT !.param = LimitParam(p.Limit),
                                   !.back = "checkOffset"]]
    /\ Goto(self, "appendCheck")
    /\ UNCHANGED <<ld, p, urlLen, behind, orig, limit, offset, links, ret>>

\* line 172
CheckOffset(self) ==
    /\ pc[self] = "checkOffset"
    /\ Ready(self)
    /\ IF ~Contains(Loaded(self), PageOffset)
       THEN Goto(self, "appendOffset")
       ELSE Goto(self, "getLimit")
    /\ EndLoad(self)
    /\ UNCHANGED <<app, p, urlLen, behind, orig, limit, offset, links, ret>>

\* line 173: the call of appendToURL
AppendOffset(self) ==
    /\ pc[self] = "appendOffset"
    /\ app' = [app EXCEPT ![self] =
                  [NoAppend EXCEPT !.param = OffsetParam,
                                   !.back = "getLimit"]]
    /\ Goto(self, "appendCheck")
    /\ UNCHANGED <<ld, p, urlLen, behind, orig, limit, offset, links, ret>>

\* line 260: the test of appendToURL loads p.URL and selects "?" or "&"
AppendCheck(self) ==
    /\ pc[self] = "appendCheck"
    /\ Ready(self)
    /\ app' = [app EXCEPT ![self].sep = Separator(Loaded(self))]
    /\ EndLoad(self)
    /\ Goto(self, "appendRead")
    /\ UNCHANGED <<p, urlLen, behind, orig, limit, offset, links, ret>>

\* lines 261, 263: "p.URL += ..." loads p.URL
AppendRead(self) ==
    /\ pc[self] = "appendRead"
    /\ Ready(self)
    /\ app' = [app EXCEPT ![self].url = Loaded(self)]
    /\ EndLoad(self)
    /\ Goto(self, "appendWrite")
    /\ UNCHANGED <<p, urlLen, behind, orig, limit, offset, links, ret>>

\* the string "p.URL += ..." stores
Appended(self) == app[self].url \o app[self].sep \o app[self].param

\* lines 261, 263: "p.URL += ..." stores one word of the concatenation
AppendWrite(self) ==
    /\ pc[self] = "appendWrite"
    /\ \E w \in Words :
          /\ app' = [app EXCEPT ![self].first = w]
          /\ IF w = "data"
             THEN /\ p' = [p EXCEPT !.URL = Appended(self)]
                  /\ urlLen' = urlLen
             ELSE /\ urlLen' = Len(Appended(self))
                  /\ p' = p
    /\ Goto(self, "appendWriteRest")
    /\ UNCHANGED <<ld, behind, orig, limit, offset, links, ret>>

\* lines 261, 263: "p.URL += ..." stores the other word and returns
AppendWriteRest(self) ==
    /\ pc[self] = "appendWriteRest"
    /\ IF app[self].first = "len"
       THEN /\ p' = [p EXCEPT !.URL = Appended(self)]
            /\ urlLen' = urlLen
       ELSE /\ urlLen' = Len(Appended(self))
            /\ p' = p
    /\ Goto(self, app[self].back)
    /\ app' = [app EXCEPT ![self] = NoAppend]
    /\ UNCHANGED <<ld, behind, orig, limit, offset, links, ret>>

\* lines 176-180
GetLimit(self) ==
    /\ pc[self] = "getLimit"
    /\ Ready(self)
    /\ limit' = [limit EXCEPT ![self] = EffectiveLimit(Loaded(self), p.Limit)]
    /\ links' = [links EXCEPT ![self] = EmptyLinks]
    /\ EndLoad(self)
    /\ Goto(self, "getOffset")
    /\ UNCHANGED <<app, p, urlLen, behind, orig, offset, ret>>

\* line 181
GetOffset(self) ==
    /\ pc[self] = "getOffset"
    /\ Ready(self)
    /\ offset' = [offset EXCEPT ![self] = EffectiveOffset(Loaded(self))]
    /\ EndLoad(self)
    /\ Goto(self, "first")
    /\ UNCHANGED <<app, p, urlLen, behind, orig, limit, links, ret>>

\* lines 183-188
First(self) ==
    /\ pc[self] = "first"
    /\ Ready(self)
    /\ links' = IF HasFirst(offset[self])
                THEN [links EXCEPT ![self] =
                         Put(@, KeyFirstPage,
                             Rewrite(Loaded(self), limit[self], 0))]
                ELSE links
    /\ EndLoad(self)
    /\ Goto(self, "previous")
    /\ UNCHANGED <<app, p, urlLen, behind, orig, limit, offset, ret>>

\* lines 190-196
Previous(self) ==
    /\ pc[self] = "previous"
    /\ Ready(self)
    /\ links' = IF HasPrevious(offset[self], limit[self])
                THEN [links EXCEPT ![self] =
                         Put(@, KeyPreviousPage,
                             Rewrite(Loaded(self), limit[self],
                                     prevOffset(offset[self], limit[self])))]
                ELSE links
    /\ EndLoad(self)
    /\ Goto(self, "next")
    /\ UNCHANGED <<app, p, urlLen, behind, orig, limit, offset, ret>>

\* lines 198-204
NextPage(self) ==
    /\ pc[self] = "next"
    /\ Ready(self)
    /\ links' = IF HasNext(offset[self], limit[self], p.Total)
                THEN [links EXCEPT ![self] =
                         Put(@, KeyNextPage,
                             Rewrite(Loaded(self), limit[self],
                                     nextOffset(offset[self], limit[self])))]
                ELSE links
    /\ EndLoad(self)
    /\ Goto(self, "last")
    /\ UNCHANGED <<app, p, urlLen, behind, orig, limit, offset, ret>>

\* lines 206-221
Last(self) ==
    /\ pc[self] = "last"
    /\ Ready(self)
    /\ IF ~HasLast(offset[self], limit[self], p.Total)
       THEN /\ Goto(self, "return")
            /\ UNCHANGED <<links, ret>>
       ELSE IF LastPanics(limit[self])
       THEN /\ ret' = [ret EXCEPT ![self] = "panic"]
            /\ Goto(self, "done")
            /\ links' = links
       ELSE /\ links' = [links EXCEPT ![self] =
                            Put(@, KeyLastPage,
                                Rewrite(Loaded(self), limit[self],
                                        lastOffset(offset[self], limit[self],
                                                   p.Total)))]
            /\ Goto(self, "return")
            /\ ret' = ret
    /\ EndLoad(self)
    /\ UNCHANGED <<app, p, urlLen, behind, orig, limit, offset>>

\* line 223
Return(self) ==
    /\ pc[self] = "return"
    /\ ret' = [ret EXCEPT ![self] = "links"]
    /\ Goto(self, "done")
    /\ UNCHANGED <<app, ld, p, urlLen, behind, orig, limit, offset, links>>

NextConc ==
    \E self \in Procs :
        \/ Start(self)
        \/ LoadFirst(self)
        \/ CheckLimit(self)
        \/ AppendLimit(self)
        \/ AppendCheck(self)
        \/ AppendRead(self)
        \/ AppendWrite(self)
        \/ AppendWriteRest(self)
        \/ CheckOffset(self)
        \/ AppendOffset(self)
        \/ GetLimit(self)
        \/ GetOffset(self)
        \/ First(self)
        \/ Previous(self)
        \/ NextPage(self)
        \/ Last(self)
        \/ Return(self)

SpecConc == InitConc /\ [][NextConc]_vars

(***************************************************************************)
(* Reading a URL as a consumer of the links does: the query is what        *)
(* follows the first "?", its parameters are separated by "&", a name ends *)
(* at the first "=".  The properties below are stated on this reading.     *)
(***************************************************************************)
IndexOf(s, c) ==
    IF \E i \in 1..Len(s) : s[i] = c
    THEN CHOOSE i \in 1..Len(s) : s[i] = c /\ \A j \in 1..(i - 1) : s[j] # c
    ELSE 0

QueryOf(url) ==
    IF IndexOf(url, "?") = 0 THEN <<>>
    ELSE SubSeq(url, IndexOf(url, "?") + 1, Len(url))

RECURSIVE SplitAmp(_)
SplitAmp(s) ==
    IF IndexOf(s, "&") = 0 THEN <<s>>
    ELSE <<SubSeq(s, 1, IndexOf(s, "&") - 1)>>
         \o SplitAmp(SubSeq(s, IndexOf(s, "&") + 1, Len(s)))

QueryParams(url) == IF QueryOf(url) = <<>> THEN <<>> ELSE SplitAmp(QueryOf(url))

NameOf(pm) ==
    IF IndexOf(pm, "=") = 0 THEN pm ELSE SubSeq(pm, 1, IndexOf(pm, "=") - 1)

ValueOf(pm) ==
    IF IndexOf(pm, "=") = 0 THEN <<>>
    ELSE SubSeq(pm, IndexOf(pm, "=") + 1, Len(pm))

\* the values of the parameters called name
ValuesOf(url, name) ==
    {ValueOf(QueryParams(url)[i]) :
        i \in {j \in 1..Len(QueryParams(url)) :
                  NameOf(QueryParams(url)[j]) = name}}

\* the URL has the parameter name, with the decimal n as its only value
Carries(url, name, n) == ValuesOf(url, name) = {FormatInt(n)}

\* the number a value starts with, 0 when it does not start with a digit
LeadingNumber(v) ==
    IF v = <<>> \/ ~IsDigit(v[1]) THEN 0
    ELSE Atoi(SubSeq(v, 1, RunEnd(v, 1, "\\d")))

\* the digit value of the parameter name, 0 when absent or non-numeric
DigitValue(url, name) ==
    IF ValuesOf(url, name) = {} THEN 0
    ELSE LeadingNumber(CHOOSE v \in ValuesOf(url, name) : TRUE)

Keys == {KeyFirstPage, KeyPreviousPage, KeyNextPage, KeyLastPage}

Done(self) == pc[self] = "done"

\* the requests with total >= limit >= 1
Paged == orig.Total >= orig.Limit /\ orig.Limit >= 1

(***************************************************************************)
(* Properties.  The working URL is the URL the call leaves in the request. *)
(* The effective limit is the minimum of the digit value of the page[limit] *)
(* parameter of the working URL and the configured limit, the configured   *)
(* limit when that minimum is 0; the effective offset is the digit value   *)
(* of the page[offset] parameter of the working URL, 0 when it has none.   *)
(* Both are read by splitting the query into parameters, independently of  *)
(* the patterns GeneratePagination matches with.                           *)
(***************************************************************************)

StatedLimit ==
    LET m == Min(DigitValue(p.URL, PageLimit), orig.Limit)
    IN IF m = 0 THEN orig.Limit ELSE m

StatedOffset == DigitValue(p.URL, PageOffset)

\* C1: for every request with total < limit, GeneratePagination returns
\* nil and no link is produced.
C1_NilBelowLimit ==
    \A self \in Procs :
        (Done(self) /\ orig.Total < orig.Limit)
            => (ret[self] = "nil" /\ links[self] = EmptyLinks)

C1_Witness ==
    /\ Done("a")
    /\ orig.Total < orig.Limit
    /\ orig.Total > 0
    /\ ret["a"] = "nil"

\* C2: GeneratePagination never mutates the caller's request: after the
\* call the URL field of the request equals its value before the call.
C2_RequestURLUnchanged ==
    \A self \in Procs : (Done(self) /\ Paged) => p.URL = orig.URL

\* C3: in every emitted link, each query parameter of the input URL other
\* than page[limit] and page[offset] stands at the same position with the
\* same name and value.
C3_OtherParamsPreserved ==
    \A self \in Procs : (Done(self) /\ Paged) =>
        \A k \in DOMAIN links[self] :
            \A i \in 1..Len(QueryParams(orig.URL)) :
                NameOf(QueryParams(orig.URL)[i]) \notin {PageLimit, PageOffset}
                => /\ i <= Len(QueryParams(links[self][k]))
                   /\ QueryParams(links[self][k])[i] = QueryParams(orig.URL)[i]

\* C4: with extractedLimit the digit value of page[limit] in the working
\* URL, the effective limit is min(extractedLimit, configuredLimit), the
\* configured limit when that is 0, and every emitted link of a request
\* with total >= limit >= 1 carries page[limit]=<that effective limit>.
C4_LinksCarryMinLimit ==
    \A self \in Procs : (Done(self) /\ Paged) =>
        LET e == StatedLimit
        IN /\ limit[self] = e
           /\ \A k \in DOMAIN links[self] :
                  Carries(links[self][k], PageLimit, e)

\* C5: for every request with total >= limit >= 1, the first link is
\* emitted iff effectiveOffset > 0 and its page[offset] is 0; the previous
\* link is emitted iff effectiveOffset > effectiveLimit and its page[offset]
\* is effectiveOffset - effectiveLimit.
C5_FirstPreviousThresholds ==
    \A self \in Procs : (Done(self) /\ Paged) =>
        LET o == StatedOffset
            l == StatedLimit
            lk == links[self]
        IN /\ ret[self] = "links"
           /\ (KeyFirstPage \in DOMAIN lk) <=> (o > 0)
           /\ (KeyFirstPage \in DOMAIN lk)
                 => Carries(lk[KeyFirstPage], PageOffset, 0)
           /\ (KeyPreviousPage \in DOMAIN lk) <=> (o > l)
           /\ (KeyPreviousPage \in DOMAIN lk)
                 => Carries(lk[KeyPreviousPage], PageOffset, o - l)

\* C6: for every request with total >= limit >= 1, the next link is
\* emitted iff effectiveOffset + effectiveLimit < total - effectiveLimit,
\* and when emitted its page[offset] is effectiveOffset + effectiveLimit.
C6_NextThresholdAndTarget ==
    \A self \in Procs : (Done(self) /\ Paged) =>
        LET o == StatedOffset
            l == StatedLimit
            lk == links[self]
        IN /\ (KeyNextPage \in DOMAIN lk) <=> (o + l < orig.Total - l)
           /\ (KeyNextPage \in DOMAIN lk)
                 => Carries(lk[KeyNextPage], PageOffset, o + l)

\* C7: whenever the last link is emitted (limit >= 1), the page[offset] of
\* the last link is under total.
C7_LastOffsetUnderTotal ==
    \A self \in Procs : (Done(self) /\ Paged) =>
        ((KeyLastPage \in DOMAIN links[self])
            => DigitValue(links[self][KeyLastPage], PageOffset) < orig.Total)

\* C8: for every request with total >= limit >= 1, GeneratePagination
\* returns nil or a link set of 1 to 4 entries keyed by first, previous,
\* next, last; never a link set with zero entries.
C8_OneToFourLinks ==
    \A self \in Procs : (Done(self) /\ Paged) =>
        \/ ret[self] = "nil"
        \/ /\ ret[self] = "links"
           /\ DOMAIN links[self] \subseteq Keys
           /\ Cardinality(DOMAIN links[self]) >= 1
           /\ Cardinality(DOMAIN links[self]) <= 4

\* C9: when two GeneratePagination calls run interleaved on the same
\* request, each call returns exactly the link set that a single call run
\* alone on that request returns.
C9_InterleavedCallsReturnAsAlone ==
    \A self \in Procs : (Done(self) /\ Paged) =>
        /\ ret[self] = Alone(orig).ret
        /\ links[self] = Alone(orig).links

\* C10: for every request with total >= limit >= 1, the last link is
\* emitted iff effectiveOffset + effectiveLimit < total, and its
\* page[offset] is L, where pages = ceil(total / effectiveLimit),
\* L = (pages - 1) * effectiveLimit + (effectiveOffset mod effectiveLimit),
\* less effectiveLimit once when L > total.
C10_LastThresholdAndTarget ==
    \A self \in Procs : (Done(self) /\ Paged) =>
        LET o == StatedOffset
            l == StatedLimit
            lk == links[self]
            pages == (orig.Total \div l)
                     + (IF orig.Total % l = 0 THEN 0 ELSE 1)
            L0 == (pages - 1) * l + (o % l)
            L == IF L0 > orig.Total THEN L0 - l ELSE L0
        IN /\ (KeyLastPage \in DOMAIN lk) <=> (o + l < orig.Total)
           /\ (KeyLastPage \in DOMAIN lk)
                 => Carries(lk[KeyLastPage], PageOffset, L)

====
